---- MODULE Spec2Model ----
(***************************************************************************)
(* license-checker: the path selection rules (searchRules, shouldExamine), *)
(* the file walk (gatherFiles over filepath.Walk), the per-file license    *)
(* examination (examine) and the concurrent scan with its aggregation      *)
(* (runConfig, Check) of src/checker/checker.go.                           *)
(*                                                                         *)
(* SpecRules decodes a rule array and evaluates a path, SpecMatch tests    *)
(* one pattern on one path, SpecWalk and SpecWalkFaults run gatherFiles    *)
(* over a tree (the latter over one the file system refuses a part of),    *)
(* SpecExamine runs examine on one file, Spec is Check with its            *)
(* goroutines, and SpecFair is Spec under the Go scheduler.                *)
(*                                                                         *)
(* A Go string is a sequence of one-character strings, so that patterns    *)
(* and byte order are computed and not assumed.                            *)
(***************************************************************************)
EXTENDS Integers, Sequences, FiniteSets, TLC

VARIABLES
    \* --- rule evaluation (SpecRules)
    body,       \* the JSON rule array handed to searchRules.UnmarshalJSON
    rpath,      \* the path handed to Config.shouldExamine
    rules,      \* UnmarshalJSON's result: [err, l]
    res,        \* shouldExamine's result
    rpc,        \* "start", then "decoded" or "rejected", then "evaluated"
    \* --- file walk (SpecWalk)
    wtree,      \* the directory tree under root
    wcfg,       \* the Config the walk runs with
    walked,     \* gatherFiles' result: [files, err, visited]
    wpc,        \* "start", then "walked"
    \* --- one file's examination (SpecExamine)
    ecfg,       \* the Config examine runs with
    efile,      \* what the file gives: [readErr, matches]
    eres,       \* examine's result
    epc,        \* "start", then "examined"
    \* --- one pattern tested on one path (SpecMatch)
    mpattern,   \* the pattern match.New compiled
    mpath,      \* the path the test is called on
    mres,       \* the test's result
    mpc,        \* "start", then "tested"
    \* --- Check (Spec): the environment
    fs,         \* the directory tree under root
    src,        \* the body of the configuration file: [file, cfgs]
    content,    \* per file, what reading and scanning it gives
    \* --- Check (Spec): the program
    pc,         \* where Check and the runConfig it called stand
    cfgs,       \* Check's cfgs: the loaded Configs
    ci,         \* index of the Config the loop of Check is at
    files,      \* per runConfig call, its files
    next,       \* the index the spawn loop of runConfig is at
    errs,       \* per runConfig call, its errs slice
    wg,         \* per runConfig call, the counter of its WaitGroup
    unit,       \* per runConfig call and file, the goroutine's state
    out,        \* runConfig's return value
    ret,        \* Check's return value
    walks,      \* ghost: the Configs gatherFiles was called for, in order
    firstWrote, \* ghost: the unit of the current call that wrote first (0: none yet)
    writers     \* ghost: per runConfig call and slot of errs, the units that wrote it

ruleVars == <<body, rpath, rules, res, rpc>>
walkVars == <<wtree, wcfg, walked, wpc>>
exVars == <<ecfg, efile, eres, epc>>
matchVars == <<mpattern, mpath, mres, mpc>>
envVars == <<fs, src, content>>
checkVars ==
    <<envVars, pc, cfgs, ci, files, next, errs, wg, unit, out, ret, walks, firstWrote, writers>>
vars == <<ruleVars, walkVars, exVars, matchVars, checkVars>>

----------------------------------------------------------------------------
(* Strings *)

\* The characters the model's names and patterns use, in byte (ASCII) order.
Ascii ==
    << "#", "*", "-", ".", "/", "?",
       "a", "b", "c", "d", "e", "f", "g", "h", "i", "k", "l", "m", "n", "o",
       "r", "s", "t", "u", "x" >>

Code(c) == CHOOSE i \in 1..Len(Ascii) : Ascii[i] = c

\* Go's s < t on strings: byte-wise lexicographic order.
StrLess(s, t) ==
    \E k \in 0..Len(s) :
        /\ k <= Len(t)
        /\ \A j \in 1..k : s[j] = t[j]
        /\ \/ k = Len(s) /\ k < Len(t)
           \/ k < Len(s) /\ k < Len(t) /\ Code(s[k + 1]) < Code(t[k + 1])

DotGit == << ".", "g", "i", "t" >>

ConfigFileName ==
    << "l", "i", "c", "e", "n", "s", "e", "-",
       "c", "h", "e", "c", "k", "e", "r", ".", "c", "f", "g" >>

----------------------------------------------------------------------------
(* match.New / match.Test: the pattern matcher (package ../match) *)

\* path.Match, which the earlier main.go called: no wildcard crosses a
\* separator, and two stars are one star after another.
RECURSIVE MatchNoDoubleStar(_, _)
MatchNoDoubleStar(pattern, s) ==
    IF pattern = << >> THEN s = << >>
    ELSE IF pattern[1] = "*" THEN
        \E k \in 0..Len(s) :
            /\ \A j \in 1..k : s[j] # "/"
            /\ MatchNoDoubleStar(Tail(pattern), SubSeq(s, k + 1, Len(s)))
    ELSE IF pattern[1] = "?" THEN
        s # << >> /\ s[1] # "/" /\ MatchNoDoubleStar(Tail(pattern), Tail(s))
    ELSE
        s # << >> /\ s[1] = pattern[1] /\ MatchNoDoubleStar(Tail(pattern), Tail(s))

RECURSIVE Match(_, _)
Match(pattern, s) ==
    IF pattern = << >> THEN s = << >>
    ELSE IF Len(pattern) >= 2 /\ pattern[1] = "*" /\ pattern[2] = "*" THEN
        \E k \in 0..Len(s) :
            Match(SubSeq(pattern, 3, Len(pattern)), SubSeq(s, k + 1, Len(s)))
    ELSE IF pattern[1] = "*" THEN
        \E k \in 0..Len(s) :
            /\ \A j \in 1..k : s[j] # "/"
            /\ Match(Tail(pattern), SubSeq(s, k + 1, Len(s)))
    ELSE IF pattern[1] = "?" THEN
        s # << >> /\ s[1] # "/" /\ Match(Tail(pattern), Tail(s))
    ELSE
        s # << >> /\ s[1] = pattern[1] /\ Match(Tail(pattern), Tail(s))

----------------------------------------------------------------------------
(* searchRules *)

\* One closure appended by UnmarshalJSON: rule(path, cond).
ApplyRule(rule, path, cond) ==
    IF \E i \in 1..Len(rule.tests) : Match(rule.tests[i], path)
    THEN rule.kind = "include"
    ELSE cond

\* The loop of UnmarshalJSON over the parsed entries p[i..], l the rules so far.
RECURSIVE UnmarshalFrom(_, _, _)
UnmarshalFrom(p, i, l) ==
    IF i > Len(p) THEN [err |-> "nil", l |-> l]
    ELSE IF Len(p[i].Include) > 0 /\ Len(p[i].Exclude) > 0 THEN
        [err |-> "Rule cannot contain both include and exclude", l |-> l]
    ELSE IF Len(p[i].Include) > 0 THEN
        UnmarshalFrom(p, i + 1,
            Append(l, [kind |-> "include", tests |-> p[i].Include]))
    ELSE IF Len(p[i].Exclude) > 0 THEN
        UnmarshalFrom(p, i + 1,
            Append(l, [kind |-> "exclude", tests |-> p[i].Exclude]))
    ELSE UnmarshalFrom(p, i + 1, l)

\* The loop of the UnmarshalJSON of the earlier main.go: an entry with both
\* lists is no error and appends an include rule and then an exclude rule.
RECURSIVE UnmarshalFromNoConflict(_, _, _)
UnmarshalFromNoConflict(p, i, l) ==
    IF i > Len(p) THEN [err |-> "nil", l |-> l]
    ELSE LET inc == IF Len(p[i].Include) > 0
                    THEN Append(l, [kind |-> "include", tests |-> p[i].Include])
                    ELSE l
             exc == IF Len(p[i].Exclude) > 0
                    THEN Append(inc, [kind |-> "exclude", tests |-> p[i].Exclude])
                    ELSE inc
         IN  UnmarshalFromNoConflict(p, i + 1, exc)

UnmarshalJSONNoConflict(p) == UnmarshalFromNoConflict(p, 1, << >>)

\* An UnmarshalJSON whose switch ends in a default case that rejects an
\* entry with neither list.
UnmarshalJSONEmptyRejected(p) ==
    IF \E i \in 1..Len(p) : p[i].Include = << >> /\ p[i].Exclude = << >>
    THEN [err |-> "Rule must contain include or exclude", l |-> << >>]
    ELSE UnmarshalFrom(p, 1, << >>)

UnmarshalJSON(p) == UnmarshalFrom(p, 1, << >>)

\* A path below root is the sequence of its names; root itself is << >>.
RECURSIVE JoinSlash(_)
JoinSlash(p) ==
    IF Len(p) = 1 THEN p[1] ELSE p[1] \o << "/" >> \o JoinSlash(Tail(p))

\* filepath.Rel(root, filepath.Join(root, p...)).
Rel(p) == IF p = << >> THEN << "." >> ELSE JoinSlash(p)

RECURSIVE FoldRules(_, _, _, _)
FoldRules(paths, i, relPath, r) ==
    IF i > Len(paths) THEN r
    ELSE FoldRules(paths, i + 1, relPath, ApplyRule(paths[i], relPath, r))

\* A fold with an early exit: the first rule that matches decides.
RECURSIVE FirstMatch(_, _, _)
FirstMatch(paths, i, relPath) ==
    IF i > Len(paths) THEN TRUE
    ELSE IF ApplyRule(paths[i], relPath, TRUE) = ApplyRule(paths[i], relPath, FALSE)
         THEN ApplyRule(paths[i], relPath, TRUE)
         ELSE FirstMatch(paths, i + 1, relPath)

shouldExamineFirstMatch(c, p) == FirstMatch(c.Paths, 1, Rel(p))

shouldExamine(c, p) == FoldRules(c.Paths, 1, Rel(p), TRUE)

\* allowsLicense: linear search of c.Licenses for name.
allowsLicense(c, name) == \E i \in 1..Len(c.Licenses) : c.Licenses[i] = name

----------------------------------------------------------------------------
(* filepath.Walk and gatherFiles *)

\* A tree is a set of entries [path, dir, fault] below root; root is a
\* directory. fault is what the file system refuses for the entry: "lstat"
\* (os.Lstat fails, so Walk has no FileInfo for it), "readdir" (the directory
\* cannot be listed) or "none". A fault of root is an entry with path << >>.
Faulty(p, d, f) == [path |-> p, dir |-> d, fault |-> f]

Entry(p, d) == Faulty(p, d, "none")

LstatFails(tree, p) == \E e \in tree : e.path = p /\ e.fault = "lstat"

readDirFails(tree, p) == \E e \in tree : e.path = p /\ e.fault = "readdir"

IsDir(tree, p) == p = << >> \/ \E e \in tree : e.path = p /\ e.dir

ChildNames(tree, p) ==
    { e.path[Len(e.path)] : e \in
        { f \in tree : Len(f.path) = Len(p) + 1
                       /\ SubSeq(f.path, 1, Len(p)) = p } }

\* sort.Strings, as readDirNames applies it.
RECURSIVE SortStrings(_)
SortStrings(S) ==
    IF S = {} THEN << >>
    ELSE LET m == CHOOSE x \in S : \A y \in S : x = y \/ StrLess(x, y)
         IN  << m >> \o SortStrings(S \ {m})

readDirNames(tree, p) == SortStrings(ChildNames(tree, p))

\* walkFn with the switch on the two reserved names left out.
walkFnNoReserved(cfg, tree, p, acc) ==
    LET rel == Rel(p)
        seen == [acc EXCEPT !.visited = Append(@, rel)]
    IN  IF ~shouldExamine(cfg, p) THEN [acc |-> seen, ret |-> "nil"]
        ELSE IF LstatFails(tree, p) THEN [acc |-> seen, ret |-> "panic"]
        ELSE IF ~IsDir(tree, p)
             THEN [acc |-> [seen EXCEPT !.files = Append(@, rel)], ret |-> "nil"]
             ELSE [acc |-> seen, ret |-> "nil"]

\* The function literal gatherFiles hands to filepath.Walk. acc holds the
\* files gathered so far and (a ghost) the rel of every entry it was called on.
\* Its err parameter is overwritten by the result of filepath.Rel before it is
\* read. For an entry whose lstat failed info is nil, and info.IsDir() is a
\* nil dereference: the run panics.
walkFn(cfg, tree, p, acc) ==
    LET rel == Rel(p)
        seen == [acc EXCEPT !.visited = Append(@, rel)]
    IN  IF rel = DotGit THEN [acc |-> seen, ret |-> "SkipDir"]
        ELSE IF rel = ConfigFileName THEN [acc |-> seen, ret |-> "nil"]
        ELSE IF ~shouldExamine(cfg, p) THEN [acc |-> seen, ret |-> "nil"]
        ELSE IF LstatFails(tree, p) THEN [acc |-> seen, ret |-> "panic"]
        ELSE IF ~IsDir(tree, p)
             THEN [acc |-> [seen EXCEPT !.files = Append(@, rel)], ret |-> "nil"]
             ELSE [acc |-> seen, ret |-> "nil"]

\* filepath.walk: the entry itself, then for a directory its sorted names. A
\* SkipDir from a directory ends that directory only; a SkipDir from a
\* non-directory is returned, and so ends the loop over the parent's names.
\* The error of listing a directory is handed to walkFn, and what walkFn
\* returns is what walk returns. A name whose lstat fails is handed to walkFn
\* without a FileInfo; a SkipDir it answers is dropped.
RECURSIVE walk(_, _, _, _), walkNames(_, _, _, _, _)
walk(cfg, tree, p, acc) ==
    IF ~IsDir(tree, p) THEN walkFn(cfg, tree, p, acc)
    ELSE LET r == walkFn(cfg, tree, p, acc)
         IN  IF r.ret # "nil" \/ readDirFails(tree, p) THEN r
             ELSE walkNames(cfg, tree, p, readDirNames(tree, p), r.acc)

walkNames(cfg, tree, p, names, acc) ==
    IF names = << >> THEN [acc |-> acc, ret |-> "nil"]
    ELSE LET child == Append(p, Head(names))
         IN  IF LstatFails(tree, child)
             THEN LET r == walkFn(cfg, tree, child, acc)
                  IN  IF r.ret \notin {"nil", "SkipDir"} THEN r
                      ELSE walkNames(cfg, tree, p, Tail(names), r.acc)
             ELSE LET r == walk(cfg, tree, child, acc)
                  IN  IF r.ret # "nil" /\ (~IsDir(tree, child) \/ r.ret # "SkipDir")
                      THEN r
                      ELSE walkNames(cfg, tree, p, Tail(names), r.acc)

\* filepath.Walk: root is handed to walkFn alone when its lstat fails; a
\* SkipDir that reaches the top is no error.
Walk(cfg, tree) ==
    LET start == [files |-> << >>, visited |-> << >>]
        r == IF LstatFails(tree, << >>) THEN walkFn(cfg, tree, << >>, start)
             ELSE walk(cfg, tree, << >>, start)
    IN  [acc |-> r.acc, err |-> IF r.ret = "SkipDir" THEN "nil" ELSE r.ret]

gatherFiles(cfg, tree) ==
    LET w == Walk(cfg, tree)
    IN  IF w.err # "nil"
        THEN [files |-> << >>, err |-> w.err, visited |-> w.acc.visited]
        ELSE [files |-> w.acc.files, err |-> "nil", visited |-> w.acc.visited]

----------------------------------------------------------------------------
(* examine *)

\* An error value: the message's text (kind), the path and the license
\* identifier formatted into it. Nil is Go's nil error.
Err(kind, path, id) == [kind |-> kind, path |-> path, id |-> id]
Nil == Err("nil", << >>, "")

\* What the environment gives for one file: whether ioutil.ReadFile fails,
\* and the identifiers of licensecheck.Scan(body).Match, in order.
NoFile == [readErr |-> FALSE, matches |-> << >>]

\* The loop over cov.Match from index i.
RECURSIVE examineFrom(_, _, _, _)
examineFrom(cfg, path, matches, i) ==
    IF i > Len(matches) THEN Nil
    ELSE IF ~allowsLicense(cfg, matches[i])
         THEN Err("uses unsupported license", path, matches[i])
         ELSE examineFrom(cfg, path, matches, i + 1)

\* examine that passes a file in which nothing was detected.
examineEmptyPasses(cfg, path, file) ==
    IF file.readErr THEN Err("Failed to read file", path, "")
    ELSE examineFrom(cfg, path, file.matches, 1)

\* examine that drops the error of ioutil.ReadFile and scans the empty body.
examineScansUnreadBody(cfg, path, file) ==
    IF Len(file.matches) = 0 THEN Err("has no license", path, "")
    ELSE examineFrom(cfg, path, file.matches, 1)

examine(cfg, path, file) ==
    IF file.readErr THEN Err("Failed to read file", path, "")
    ELSE IF Len(file.matches) = 0 THEN Err("has no license", path, "")
    ELSE examineFrom(cfg, path, file.matches, 1)

----------------------------------------------------------------------------
(* loadConfigs, runConfig, Check *)

\* The first Config of the body whose "paths" UnmarshalJSON rejects.
FirstRejected(parsed) ==
    LET bad == { i \in 1..Len(parsed) : UnmarshalJSON(parsed[i].Paths).err # "nil" }
    IN  IF bad = {} THEN 0 ELSE CHOOSE i \in bad : \A j \in bad : i <= j

DecodeConfig(k) == [Paths |-> UnmarshalJSON(k.Paths).l, Licenses |-> k.Licenses]

\* The loadConfig of the earlier main.go: a missing file is no error and
\* gives one default Config.
loadConfigsMissingIsDefault(tree, s) ==
    IF Entry(<< ConfigFileName >>, FALSE) \notin tree
    THEN [err |-> "nil", cfgs |-> << [Paths |-> << >>, Licenses |-> << >>] >>]
    ELSE IF s.file = "garbage" \/ FirstRejected(s.cfgs) # 0
    THEN [err |-> "decode", cfgs |-> << >>]
    ELSE [err |-> "nil", cfgs |-> [i \in 1..Len(s.cfgs) |-> DecodeConfig(s.cfgs[i])]]

\* s.file is "object" for a body that starts with "{" (one Config, s.cfgs[1])
\* and "array" for a list of Configs; "garbage" is a body JSON cannot decode.
loadConfigs(tree, s) ==
    IF Entry(<< ConfigFileName >>, FALSE) \notin tree
    THEN [err |-> "open: no such file", cfgs |-> << >>]
    ELSE IF s.file = "garbage"
    THEN [err |-> "invalid character", cfgs |-> << >>]
    ELSE IF FirstRejected(s.cfgs) # 0
    THEN [err |-> UnmarshalJSON(s.cfgs[FirstRejected(s.cfgs)].Paths).err,
          cfgs |-> << >>]
    ELSE IF s.file = "object"
    THEN [err |-> "nil", cfgs |-> << DecodeConfig(s.cfgs[1]) >>]
    ELSE [err |-> "nil", cfgs |-> [i \in 1..Len(s.cfgs) |-> DecodeConfig(s.cfgs[i])]]

removeNilErrsKeepsAll(e) == e

RECURSIVE removeNilFrom(_, _, _)
removeNilFrom(e, i, o) ==
    IF i > Len(e) THEN o
    ELSE removeNilFrom(e, i + 1, IF e[i] # Nil THEN Append(o, e[i]) ELSE o)

removeNilErrs(e) == removeNilFrom(e, 1, << >>)

\* Check's return values.
NoReturn == [msg |-> "", cause |-> "", count |-> 0, lines |-> << >>]
ReturnNil == [msg |-> "nil", cause |-> "", count |-> 0, lines |-> << >>]
LoadError(err) ==
    [msg |-> "Failed to load config file", cause |-> err, count |-> 0, lines |-> << >>]
\* "%d errors:" and one "* %v" line per error.
AggregateError(e) ==
    [msg |-> "errors", cause |-> "", count |-> Len(e), lines |-> e]

\* The goroutine of the loop's step i writes errs[i]: i is copied per step
\* (i, file := i, file). SlotOfLoopVariable is the closure over the loop's own
\* variable, which holds the index of the step the loop is at.
SlotOfLoopVariable(i, nxt) == nxt - 1

\* Results kept in the order the goroutines finish: each takes the slot after
\* those already written.
\* One error variable shared by the goroutines: every one writes slot 1.
SlotShared(i, nxt) == 1

SlotByCompletion(i, nxt) ==
    1 + Cardinality({ j \in 1..Len(unit[ci]) : unit[ci][j] \in {"wrote", "done"} })

Slot(i, nxt) == i

\* wg.Wait() returns when the counter is zero.
WaitNeverBlocks(counter) == TRUE

WaitReturns(counter) == counter = 0

----------------------------------------------------------------------------
(* Inputs *)

NFiles == 3
MaxConfigs == 2

MaxMatches == 2
MaxLicenses == 2

LicenseIDs == { "MIT", "GPL-2.0", "Apache-2.0-Header" }

MaxRules == 2

SeqsUpTo(S, n) == UNION { [1..k -> S] : k \in 0..n }

PStarStar == << "*", "*" >>
PStar == << "*" >>
POut == << "o", "u", "t" >>
POutStar == << "o", "u", "t", "/", "*" >>
POutA == << "o", "u", "t", "/", "a" >>
PBuildStar == << "b", "u", "i", "l", "d", "/", "*" >>
POutFooTxt == << "o", "u", "t", "/", "f", "o", "o", ".", "t", "x", "t" >>

Include(ps) == [Include |-> ps, Exclude |-> << >>]
Exclude(ps) == [Include |-> << >>, Exclude |-> ps]

\* Entries of a "paths" array as JSON decodes them.
EntryPool ==
    { Include(<< PStarStar >>), Exclude(<< PStarStar >>),
      Exclude(<< POutStar, PStar >>), Include(<< POutA >>),
      Exclude(<< POut >>),
      [Include |-> << >>, Exclude |-> << >>],
      [Include |-> << PStar >>, Exclude |-> << POutA >>] }

Bodies == SeqsUpTo(EntryPool, MaxRules)

\* The README's example.
ExampleBody ==
    << Exclude(<< POutStar, PBuildStar >>), Include(<< POutFooTxt >>) >>

NameA == << "a" >>
NameC == << "c" >>
NameX == << "x" >>
NameHash == << "#" >>
NameBuild == << "b", "u", "i", "l", "d" >>
NameFooTxt == << "f", "o", "o", ".", "t", "x", "t" >>
NameBarTxt == << "b", "a", "r", ".", "t", "x", "t" >>

PathPool ==
    { << >>, << NameA >>, << POut >>, << POut, NameA >>, << POut, NameC >>,
      << DotGit >>, << POut, NameFooTxt >> }

ExampleTree ==
    { Entry(<< POut >>, TRUE), Entry(<< POut, NameFooTxt >>, FALSE),
      Entry(<< POut, NameBarTxt >>, FALSE),
      Entry(<< NameBuild >>, TRUE), Entry(<< NameBuild, NameX >>, FALSE) }

\* .git absent, a file (a worktree or submodule link), or a directory.
GitShapes ==
    { {}, { Entry(<< DotGit >>, FALSE) }, { Entry(<< DotGit >>, TRUE) },
      { Entry(<< DotGit >>, TRUE), Entry(<< DotGit, NameC >>, FALSE) } }

CfgShapes ==
    { {}, { Entry(<< ConfigFileName >>, FALSE) },
      { Entry(<< ConfigFileName >>, TRUE),
        Entry(<< ConfigFileName, NameX >>, FALSE) } }

OutShapes ==
    { {}, { Entry(<< POut >>, TRUE), Entry(<< POut, NameA >>, FALSE) },
      { Entry(<< POut >>, TRUE), Entry(<< POut, NameA >>, FALSE),
        Entry(<< POut, DotGit >>, FALSE) } }

HashShapes == { {}, { Entry(<< NameHash >>, FALSE) } }

\* What the file system refuses: a directory that cannot be listed (out or
\* root), or an entry that cannot be stat'ed (root, a file, .git, out).
FaultShapes ==
    { { Faulty(<< POut >>, TRUE, "readdir"), Entry(<< POut, NameA >>, FALSE) },
      { Faulty(<< >>, TRUE, "readdir") },
      { Faulty(<< >>, TRUE, "lstat") },
      { Faulty(<< NameC >>, FALSE, "lstat") },
      { Faulty(<< DotGit >>, TRUE, "lstat") },
      { Faulty(<< POut >>, TRUE, "lstat"), Entry(<< POut, NameA >>, FALSE) } }

FaultTrees ==
    { f \cup c \cup { Entry(<< NameA >>, FALSE), Entry(<< NameX >>, FALSE) } :
        f \in FaultShapes,
        c \in { {}, { Entry(<< ConfigFileName >>, FALSE) } } }

Trees ==
    { g \cup c \cup o \cup h \cup { Entry(<< NameA >>, FALSE) } :
        g \in GitShapes, c \in CfgShapes, o \in OutShapes, h \in HashShapes }
    \cup { ExampleTree }

----------------------------------------------------------------------------
(* SpecRules: decode a rule array, then evaluate one path *)

NoRules == [err |-> "nil", l |-> << >>]
NoConfig == [Paths |-> << >>, Licenses |-> << >>]
NoWalk == [files |-> << >>, err |-> "nil", visited |-> << >>]

IdleRules ==
    body = << >> /\ rpath = << >> /\ rules = NoRules /\ res = FALSE /\ rpc = "idle"

IdleWalk == wtree = {} /\ wcfg = NoConfig /\ walked = NoWalk /\ wpc = "idle"

IdleExamine ==
    ecfg = NoConfig /\ efile = NoFile /\ eres = Nil /\ epc = "idle"

IdleMatch == mpattern = << >> /\ mpath = << >> /\ mres = FALSE /\ mpc = "idle"

NoSource == [file |-> "missing", cfgs |-> << >>]

Fresh ==
    /\ cfgs = << >> /\ ci = 0 /\ files = << >> /\ next = 0 /\ errs = << >>
    /\ wg = << >> /\ unit = << >> /\ out = << >> /\ ret = NoReturn
    /\ walks = << >> /\ firstWrote = 0 /\ writers = << >>

IdleCheck ==
    fs = {} /\ src = NoSource /\ content = << >> /\ pc = "idle" /\ Fresh

InitRules ==
    /\ body \in Bodies \cup { ExampleBody }
    /\ rpath \in PathPool
    /\ rules = NoRules
    /\ res = FALSE
    /\ rpc = "start"
    /\ IdleWalk
    /\ IdleExamine
    /\ IdleCheck
    /\ IdleMatch

Decode ==
    /\ rpc = "start"
    /\ rules' = UnmarshalJSON(body)
    /\ rpc' = IF rules'.err = "nil" THEN "decoded" ELSE "rejected"
    /\ UNCHANGED <<body, rpath, res, walkVars, exVars, checkVars, matchVars>>

Evaluate ==
    /\ rpc = "decoded"
    /\ res' = shouldExamine([Paths |-> rules.l, Licenses |-> << >>], rpath)
    /\ rpc' = "evaluated"
    /\ UNCHANGED <<body, rpath, rules, walkVars, exVars, checkVars, matchVars>>

NextRules == Decode \/ Evaluate

SpecRules == InitRules /\ [][NextRules]_vars

----------------------------------------------------------------------------
(* SpecWalk: gatherFiles over a tree *)

WalkConfigs ==
    { [Paths |-> UnmarshalJSON(b).l, Licenses |-> << >>] :
        b \in { x \in Bodies \cup { ExampleBody } : UnmarshalJSON(x).err = "nil" } }

InitWalk ==
    /\ wtree \in Trees
    /\ wcfg \in WalkConfigs
    /\ walked = NoWalk
    /\ wpc = "start"
    /\ IdleRules
    /\ IdleExamine
    /\ IdleCheck
    /\ IdleMatch

Gather ==
    /\ wpc = "start"
    /\ walked' = gatherFiles(wcfg, wtree)
    /\ wpc' = "walked"
    /\ UNCHANGED <<wtree, wcfg, ruleVars, exVars, checkVars, matchVars>>

NextWalk == Gather

SpecWalk == InitWalk /\ [][NextWalk]_vars

\* gatherFiles over a tree the file system refuses a part of.
InitWalkFaults ==
    /\ wtree \in FaultTrees
    /\ wcfg \in WalkConfigs
    /\ walked = NoWalk
    /\ wpc = "start"
    /\ IdleRules
    /\ IdleExamine
    /\ IdleCheck
    /\ IdleMatch

SpecWalkFaults == InitWalkFaults /\ [][NextWalk]_vars

----------------------------------------------------------------------------
(* SpecExamine: examine on one file *)

InitExamine ==
    /\ ecfg \in { [Paths |-> << >>, Licenses |-> l] :
                    l \in SeqsUpTo(LicenseIDs, MaxLicenses) }
    /\ efile \in [readErr : BOOLEAN, matches : SeqsUpTo(LicenseIDs, MaxMatches)]
    /\ eres = Nil
    /\ epc = "start"
    /\ IdleRules
    /\ IdleWalk
    /\ IdleCheck
    /\ IdleMatch

Examine ==
    /\ epc = "start"
    /\ eres' = examine(ecfg, NameA, efile)
    /\ epc' = "examined"
    /\ UNCHANGED <<ecfg, efile, ruleVars, walkVars, checkVars, matchVars>>

NextExamine == Examine

SpecExamine == InitExamine /\ [][NextExamine]_vars

----------------------------------------------------------------------------
(* SpecMatch: one compiled pattern tested on one path *)

MaxPathLen == 3

MatchAlphabet == { "a", "b", "/" }

PQuestion == << "?" >>
PAStar == << "a", "*" >>
PAQuestion == << "a", "?" >>
PASlashStar == << "a", "/", "*" >>
PASlashStarStar == << "a", "/", "*", "*" >>
PStarStarA == << "*", "*", "a" >>

PatternPool ==
    { PStar, PStarStar, PQuestion, NameA, PAStar, PAQuestion, PASlashStar,
      PASlashStarStar, PStarStarA }

InitMatch ==
    /\ mpattern \in PatternPool
    /\ mpath \in SeqsUpTo(MatchAlphabet, MaxPathLen)
    /\ mres = FALSE
    /\ mpc = "start"
    /\ IdleRules
    /\ IdleWalk
    /\ IdleExamine
    /\ IdleCheck

\* test(path) of a rule closure, for the test match.New(pattern) returned.
Test ==
    /\ mpc = "start"
    /\ mres' = Match(mpattern, mpath)
    /\ mpc' = "tested"
    /\ UNCHANGED <<mpattern, mpath, ruleVars, walkVars, exVars, checkVars>>

NextMatch == Test

SpecMatch == InitMatch /\ [][NextMatch]_vars

----------------------------------------------------------------------------
(* Spec: Check over a project root *)

CheckNames == << << "a" >>, << "b" >>, << "c" >>, << "d" >> >>

CheckFiles == { CheckNames[i] : i \in 1..NFiles }

\* A repository: the files, a .git directory, and the configuration file
\* unless it is missing.
CheckTree(hasCfg) ==
    { Entry(<< n >>, FALSE) : n \in CheckFiles }
    \cup { Entry(<< DotGit >>, TRUE), Entry(<< DotGit, NameC >>, FALSE) }
    \cup (IF hasCfg THEN { Entry(<< ConfigFileName >>, FALSE) } ELSE {})

FileOutcomes ==
    { [readErr |-> TRUE, matches |-> << >>],
      [readErr |-> FALSE, matches |-> << >>],
      [readErr |-> FALSE, matches |-> << "MIT" >>],
      [readErr |-> FALSE, matches |-> << "GPL-2.0" >>] }

\* Configs as JSON decodes them, before the rules are compiled.
ConfigPool ==
    { [Paths |-> << >>, Licenses |-> << "MIT" >>],
      [Paths |-> << Exclude(<< NameA >>) >>, Licenses |-> << "MIT", "GPL-2.0" >>],
      [Paths |-> << [Include |-> << PStar >>, Exclude |-> << NameA >>] >>,
       Licenses |-> << "MIT" >>] }

Sources ==
    { [file |-> "garbage", cfgs |-> << >>] }
    \cup { [file |-> "object", cfgs |-> << k >>] : k \in ConfigPool }
    \cup { [file |-> "array", cfgs |-> l] : l \in SeqsUpTo(ConfigPool, MaxConfigs) }

Init ==
    /\ \/ fs = CheckTree(FALSE) /\ src = NoSource
       \/ fs = CheckTree(TRUE) /\ src \in Sources
    /\ content \in [CheckFiles -> FileOutcomes]
    /\ pc = "start"
    /\ Fresh
    /\ IdleRules
    /\ IdleWalk
    /\ IdleExamine
    /\ IdleMatch

others == <<ruleVars, walkVars, exVars, matchVars, envVars>>

\* Check up to its loop: loadConfigs and the return on its error.
LoadConfigs ==
    /\ pc = "start"
    /\ LET r == loadConfigs(fs, src)
       IN  IF r.err # "nil"
           THEN /\ ret' = LoadError(r.err)
                /\ pc' = "done"
                /\ UNCHANGED <<cfgs, ci, files, errs, wg, unit, writers>>
           ELSE /\ cfgs' = r.cfgs
                /\ ci' = 1
                /\ pc' = "loop"
                /\ files' = [c \in 1..Len(r.cfgs) |-> << >>]
                /\ errs' = [c \in 1..Len(r.cfgs) |-> << >>]
                /\ unit' = [c \in 1..Len(r.cfgs) |-> << >>]
                /\ wg' = [c \in 1..Len(r.cfgs) |-> 0]
                /\ writers' = [c \in 1..Len(r.cfgs) |-> << >>]
                /\ UNCHANGED ret
    /\ UNCHANGED <<next, out, walks, firstWrote, others>>

\* A Check that takes a configuration file without a Config as a failure to
\* load it.
SucceedUnlessEmpty ==
    /\ pc = "loop"
    /\ ci > Len(cfgs)
    /\ ret' = IF cfgs = << >> THEN LoadError("no configs") ELSE ReturnNil
    /\ pc' = "done"
    /\ UNCHANGED <<cfgs, ci, files, next, errs, wg, unit, out, walks, firstWrote, writers, others>>

\* The loop of Check is over: "No license issues found".
Succeed ==
    /\ pc = "loop"
    /\ ci > Len(cfgs)
    /\ ret' = ReturnNil
    /\ pc' = "done"
    /\ UNCHANGED <<cfgs, ci, files, next, errs, wg, unit, out, walks, firstWrote, writers, others>>

\* runConfig up to its loop: gatherFiles, the return on its error, make(errs).
RunConfig ==
    /\ pc = "loop"
    /\ ci <= Len(cfgs)
    /\ walks' = Append(walks, ci)
    /\ firstWrote' = 0
    /\ LET g == gatherFiles(cfgs[ci], fs)
       IN  IF g.err = "panic"
           THEN /\ pc' = "panic"
                /\ UNCHANGED <<files, errs, unit, next, out, writers>>
           ELSE IF g.err # "nil"
           THEN /\ out' = << Err("Failed to gather files", << >>, g.err) >>
                /\ pc' = "report"
                /\ UNCHANGED <<files, errs, unit, next, writers>>
           ELSE /\ files' = [files EXCEPT ![ci] = g.files]
                /\ errs' = [errs EXCEPT ![ci] = [i \in 1..Len(g.files) |-> Nil]]
                /\ unit' = [unit EXCEPT ![ci] = [i \in 1..Len(g.files) |-> "idle"]]
                /\ writers' = [writers EXCEPT ![ci] = [i \in 1..Len(g.files) |-> << >>]]
                /\ next' = 1
                /\ pc' = "spawn"
                /\ UNCHANGED out
    /\ UNCHANGED <<cfgs, ci, wg, ret, others>>

\* One step of the loop of runConfig: wg.Add(1) and the go statement.
Spawn ==
    /\ pc = "spawn"
    /\ next <= Len(files[ci])
    /\ wg' = [wg EXCEPT ![ci] = @ + 1]
    /\ unit' = [unit EXCEPT ![ci][next] = "run"]
    /\ next' = next + 1
    /\ UNCHANGED <<pc, cfgs, ci, files, errs, out, ret, walks, firstWrote, writers, others>>

\* The goroutine: errs[i] = examine(root, file, cfg).
UnitExamine(c, i) ==
    /\ unit[c][i] = "run"
    /\ errs' = [errs EXCEPT ![c][Slot(i, next)] =
                    examine(cfgs[c], files[c][i], content[files[c][i]])]
    /\ unit' = [unit EXCEPT ![c][i] = "wrote"]
    /\ firstWrote' = IF c = ci /\ firstWrote = 0 THEN i ELSE firstWrote
    /\ writers' = [writers EXCEPT ![c][Slot(i, next)] = Append(@, i)]
    /\ UNCHANGED <<pc, cfgs, ci, files, next, wg, out, ret, walks, others>>

\* A goroutine that ends without wg.Done().
UnitDoneNoDecrement(c, i) ==
    /\ unit[c][i] = "wrote"
    /\ unit' = [unit EXCEPT ![c][i] = "done"]
    /\ UNCHANGED <<pc, cfgs, ci, files, next, errs, wg, out, ret, walks, firstWrote, writers, others>>

\* The goroutine's deferred wg.Done().
UnitDone(c, i) ==
    /\ unit[c][i] = "wrote"
    /\ wg' = [wg EXCEPT ![c] = @ - 1]
    /\ unit' = [unit EXCEPT ![c][i] = "done"]
    /\ UNCHANGED <<pc, cfgs, ci, files, next, errs, out, ret, walks, firstWrote, writers, others>>

\* The loop of runConfig is over and wg.Wait() returns.
Wait ==
    /\ pc = "spawn"
    /\ next > Len(files[ci])
    /\ WaitReturns(wg[ci])
    /\ pc' = "collect"
    /\ UNCHANGED <<cfgs, ci, files, next, errs, wg, unit, out, ret, walks, firstWrote, writers, others>>

\* return removeNilErrs(errs)
Collect ==
    /\ pc = "collect"
    /\ out' = removeNilErrs(errs[ci])
    /\ pc' = "report"
    /\ UNCHANGED <<cfgs, ci, files, next, errs, wg, unit, ret, walks, firstWrote, writers, others>>

\* A failure that does not end the loop of Check: the last one is returned.
ReportAtEnd ==
    /\ pc = "report"
    /\ ret' = IF Len(out) > 0 THEN AggregateError(out) ELSE ret
    /\ IF ci = Len(cfgs) /\ ret'.msg = "errors"
       THEN pc' = "done" /\ UNCHANGED ci
       ELSE pc' = "loop" /\ ci' = ci + 1
    /\ firstWrote' = 0
    /\ UNCHANGED <<cfgs, files, next, errs, wg, unit, out, walks, writers, others>>

\* Check's loop body after runConfig: return the aggregate, or go on.
Report ==
    /\ pc = "report"
    /\ IF Len(out) > 0
       THEN ret' = AggregateError(out) /\ pc' = "done" /\ UNCHANGED <<ci, firstWrote>>
       ELSE ci' = ci + 1 /\ pc' = "loop" /\ firstWrote' = 0 /\ UNCHANGED ret
    /\ UNCHANGED <<cfgs, files, next, errs, wg, unit, out, walks, writers, others>>

Next ==
    \/ LoadConfigs
    \/ Succeed
    \/ RunConfig
    \/ Spawn
    \/ \E c \in 1..Len(unit) : \E i \in 1..Len(unit[c]) : UnitExamine(c, i)
    \/ \E c \in 1..Len(unit) : \E i \in 1..Len(unit[c]) : UnitDone(c, i)
    \/ Wait
    \/ Collect
    \/ Report

Spec == Init /\ [][Next]_vars

\* The steps of runConfig from its loop on, and of its goroutines.
RunConfigStep ==
    \/ Spawn
    \/ \E c \in 1..Len(unit) : \E i \in 1..Len(unit[c]) : UnitExamine(c, i)
    \/ \E c \in 1..Len(unit) : \E i \in 1..Len(unit[c]) : UnitDone(c, i)
    \/ Wait
    \/ Collect

\* The Go scheduler runs a goroutine that can run: while runConfig or one of
\* its goroutines has a step to take, a step is taken.
SpecFair == Spec /\ WF_vars(RunConfigStep)

----------------------------------------------------------------------------
(* Claims on rule evaluation and on the walk *)

Matches(rule, path) == \E i \in 1..Len(rule.tests) : Match(rule.tests[i], path)

MatchingRules(l, path) == { i \in 1..Len(l) : Matches(l[i], path) }

Last(S) == CHOOSE i \in S : \A j \in S : j <= i

InSeq(x, q) == \E i \in 1..Len(q) : q[i] = x

\* C1: shouldExamine returns the kind of the last rule, in declaration order,
\* that matches the path (true for include, false for exclude), and true when
\* no rule matches; a later matching rule overrides every earlier one.
C1_LastMatchingRuleDecides ==
    rpc = "evaluated" =>
        LET m == MatchingRules(rules.l, Rel(rpath))
        IN  res = (IF m = {} THEN TRUE ELSE rules.l[Last(m)].kind = "include")

\* An exclude rule matched the path, a later include rule matched it too, and
\* the path was evaluated to true.
C1_Witness ==
    /\ rpc = "evaluated"
    /\ res = TRUE
    /\ \E i, j \in MatchingRules(rules.l, Rel(rpath)) :
          i < j /\ rules.l[i].kind = "exclude" /\ rules.l[j].kind = "include"

IsStrictlyUnderGit(rel) ==
    Len(rel) > Len(DotGit) + 1
    /\ SubSeq(rel, 1, Len(DotGit) + 1) = DotGit \o << "/" >>

\* The root configuration file, and the top-level .git with all below it.
Reserved(e) ==
    \/ Rel(e.path) = ConfigFileName
    \/ Rel(e.path) = DotGit
    \/ IsStrictlyUnderGit(Rel(e.path))

Selectable(tree) == { e \in tree : ~e.dir /\ ~Reserved(e) }

\* C2: gatherFiles selects a non-reserved file if and only if the rules
\* evaluate to true on the file's own relative path, whatever they say of its
\* ancestors.
C2_SelectedIffRulesAccept ==
    wpc = "walked" =>
        \A e \in Selectable(wtree) :
            InSeq(Rel(e.path), walked.files) <=> shouldExamine(wcfg, e.path)

\* C3: gatherFiles never emits the root configuration file, never emits an
\* entry at or under the top-level .git, and never calls the walk function
\* on an entry under it, whatever the rules are.
C3_ReservedNeverSelected ==
    wpc = "walked" =>
        /\ \A i \in 1..Len(walked.files) :
              /\ walked.files[i] # ConfigFileName
              /\ walked.files[i] # DotGit
              /\ ~IsStrictlyUnderGit(walked.files[i])
        /\ \A i \in 1..Len(walked.visited) :
              ~IsStrictlyUnderGit(walked.visited[i])

\* The walk ran with Include(**) as the only rule over a tree that holds a
\* configuration file and a .git directory with a file in it, and selected
\* something.
C3_Witness ==
    /\ wpc = "walked"
    /\ wcfg.Paths = << [kind |-> "include", tests |-> << PStarStar >>] >>
    /\ Entry(<< ConfigFileName >>, FALSE) \in wtree
    /\ Entry(<< DotGit, NameC >>, FALSE) \in wtree
    /\ Len(walked.files) > 0

\* C4: with Include(**) as the only rule the selection is exactly the
\* non-directory entries that are not reserved, each once; with Exclude(**)
\* as the only rule it is empty.
C4_IncludeAllExcludeAll ==
    wpc = "walked" =>
        /\ wcfg.Paths = << [kind |-> "include", tests |-> << PStarStar >>] >> =>
              /\ { walked.files[i] : i \in 1..Len(walked.files) }
                    = { Rel(e.path) : e \in Selectable(wtree) }
              /\ Len(walked.files) = Cardinality(Selectable(wtree))
        /\ wcfg.Paths = << [kind |-> "exclude", tests |-> << PStarStar >>] >> =>
              walked.files = << >>

Permitted(cfg) == { cfg.Licenses[i] : i \in 1..Len(cfg.Licenses) }

Offenders(cfg, matches) ==
    { i \in 1..Len(matches) : matches[i] \notin Permitted(cfg) }

First(S) == CHOOSE i \in S : \A j \in S : i <= j

\* C5: for a file that was read, examine returns 'has no license' when the
\* oracle matched nothing; otherwise 'uses unsupported license' naming the
\* first identifier, in match order, that is not permitted; and nil exactly
\* when there is a match and every identifier is permitted.
C5_ExamineVerdict ==
    (epc = "examined" /\ ~efile.readErr) =>
        LET m == efile.matches
            bad == Offenders(ecfg, m)
        IN  /\ Len(m) = 0 => eres = Err("has no license", NameA, "")
            /\ (Len(m) > 0 /\ bad # {}) =>
                  eres = Err("uses unsupported license", NameA, m[First(bad)])
            /\ eres = Nil <=> (Len(m) > 0 /\ bad = {})

\* A file with two different identifiers, neither permitted, was examined
\* and the first was reported.
C5_Witness ==
    /\ epc = "examined"
    /\ ~efile.readErr
    /\ Cardinality(Offenders(ecfg, efile.matches)) = 2
    /\ efile.matches[1] # efile.matches[2]
    /\ eres.id = efile.matches[1]

----------------------------------------------------------------------------
(* Claims on runConfig and Check *)

NonNil(e) == e # Nil

\* What examine gives for each file of the c-th runConfig call.
Results(c) ==
    [i \in 1..Len(files[c]) |->
        examine(cfgs[c], files[c][i], content[files[c][i]])]

\* C6: in every interleaving the result of file i is in slot i, and runConfig
\* returns the non-nil results in the order of the file list, each once.
C6_SlotsInFileOrder ==
    /\ \A c \in 1..Len(unit) : \A i \in 1..Len(unit[c]) :
          errs[c][i] = IF unit[c][i] \in {"wrote", "done"} THEN Results(c)[i] ELSE Nil
    /\ pc = "report" => out = SelectSeq(Results(ci), NonNil)

\* The unit of the last file wrote first, every file failed, and runConfig
\* returned the failures in file order.
C6_Witness ==
    /\ pc = "report"
    /\ Len(files[ci]) = NFiles
    /\ firstWrote = NFiles
    /\ Len(out) = NFiles
    /\ \A i \in 1..NFiles : out[i].path = files[ci][i]

\* C7: the slots are read (removeNilErrs) only when every unit of the call
\* has written its slot and ended.
C7_ReadAfterJoin ==
    pc = "collect" =>
        /\ Len(unit[ci]) = Len(files[ci])
        /\ \A i \in 1..Len(unit[ci]) : unit[ci][i] = "done"
        /\ wg[ci] = 0

\* The slots are being read after three units ended.
C7_Witness ==
    /\ pc = "collect"
    /\ Len(files[ci]) = NFiles
    /\ \A i \in 1..Len(unit[ci]) : unit[ci][i] = "done"

\* The failures the c-th Config has on this tree, computed from the tree.
FailuresOf(c) ==
    LET fl == gatherFiles(cfgs[c], fs).files
    IN  SelectSeq([i \in 1..Len(fl) |-> examine(cfgs[c], fl[i], content[fl[i]])],
                  NonNil)

Failing == { c \in 1..Len(cfgs) : Len(FailuresOf(c)) > 0 }

\* C8: Check takes the Configs in declaration order, one at a time: no unit
\* of another Config is live while one is walked and scanned; it returns the
\* failures of the first Config that has any and walks and scans none after
\* it; and it returns nil exactly when no Config has a failure.
C8_ConfigsInOrderFirstFailureEnds ==
    /\ \A j \in 1..Len(walks) : walks[j] = j
    /\ \A c \in 1..Len(unit) :
          /\ c > Len(walks) => unit[c] = << >>
          /\ c < Len(walks) => \A i \in 1..Len(unit[c]) : unit[c][i] = "done"
    /\ (pc = "done" /\ ret.msg = "errors") =>
          /\ ci = First(Failing)
          /\ ret.lines = FailuresOf(ci)
          /\ Len(walks) = ci
    /\ (pc = "done" /\ ret.msg # "Failed to load config file") =>
          (ret = ReturnNil <=> Failing = {})

\* Check returned the failures of its first Config and never walked the
\* second, which has failures too.
C8_Witness ==
    /\ pc = "done"
    /\ ret.msg = "errors"
    /\ ci = 1
    /\ walks = << 1 >>
    /\ Failing = {1, 2}

\* C9: the aggregate failure holds, in file order, one line per file of the
\* Config whose result is not nil, and its count is their number.
C9_CountAndLines ==
    (pc = "done" /\ ret.msg = "errors") =>
        /\ ret.count = Cardinality({ i \in 1..Len(errs[ci]) : errs[ci][i] # Nil })
        /\ ret.lines = SelectSeq(errs[ci], NonNil)
        /\ Len(ret.lines) = ret.count

\* Every file but one is licensed as permitted and that one has no license:
\* Check returned count 1 and the single line '<path> has no license'.
C9_Witness ==
    /\ pc = "done"
    /\ ret.msg = "errors"
    /\ Len(files[ci]) = NFiles
    /\ ret.count = 1
    /\ ret.lines = << Err("has no license", CheckNames[2], "") >>

LoadFails ==
    \/ Entry(<< ConfigFileName >>, FALSE) \notin fs
    \/ src.file = "garbage"
    \/ \E i \in 1..Len(src.cfgs) : UnmarshalJSON(src.cfgs[i].Paths).err # "nil"

\* C10: when the configuration file is missing or cannot be decoded, Check
\* returns 'Failed to load config file' and no walk and no scan ever starts.
C10_LoadFailureScansNothing ==
    (pc # "start" /\ LoadFails) =>
        /\ pc = "done"
        /\ ret.msg = "Failed to load config file"
        /\ walks = << >>
        /\ unit = << >>

\* Check returned on a project root that has no configuration file.
C10_Witness ==
    /\ pc = "done"
    /\ Entry(<< ConfigFileName >>, FALSE) \notin fs
    /\ ret.msg = "Failed to load config file"

\* The verdict on a file that was read: the oracle's matches against the
\* permitted licenses.
Verdict(cfg, path, m) ==
    IF Len(m) = 0 THEN Err("has no license", path, "")
    ELSE IF Offenders(cfg, m) = {} THEN Nil
    ELSE Err("uses unsupported license", path, m[First(Offenders(cfg, m))])

ReadFails(c) == { i \in 1..Len(files[c]) : content[files[c][i]].readErr }

ReadFailuresIn(e) ==
    { j \in 1..Len(e) : e[j].kind = "Failed to read file" }

\* C11: a read failure does not abort the batch: the slot of a file whose
\* read fails holds one 'Failed to read file' result naming that file, every
\* other file is still scanned and its slot holds the verdict it has when no
\* read fails, and runConfig returns exactly one read failure per such file.
C11_ReadFailureStaysInItsSlot ==
    /\ \A c \in 1..Len(unit) : \A i \in 1..Len(unit[c]) :
          unit[c][i] \in {"wrote", "done"} =>
              errs[c][i] = IF i \in ReadFails(c)
                           THEN Err("Failed to read file", files[c][i], "")
                           ELSE Verdict(cfgs[c], files[c][i],
                                        content[files[c][i]].matches)
    /\ pc = "collect" =>
          \A i \in 1..Len(files[ci]) : unit[ci][i] = "done"
    /\ (pc = "report" /\ walks # << >>) =>
          /\ Cardinality(ReadFailuresIn(out)) = Cardinality(ReadFails(ci))
          /\ \A i \in ReadFails(ci) :
                Cardinality({ j \in ReadFailuresIn(out) :
                                out[j].path = files[ci][i] }) = 1

\* The read of the first file failed; the second file was still scanned and
\* found unlicensed, the third was scanned and passed; runConfig returned
\* the read failure and the missing license.
C11_Witness ==
    /\ pc = "report"
    /\ Len(files[ci]) = NFiles
    /\ ReadFails(ci) = {1}
    /\ errs[ci][3] = Nil
    /\ out = << Err("Failed to read file", files[ci][1], ""),
                Err("has no license", files[ci][2], "") >>

----------------------------------------------------------------------------
(* Claims on what the file system refuses *)

\* The entries the file system refused to the walk: walkFn was called on
\* them with the error.
FaultsMet ==
    { e \in wtree : e.fault # "none" /\ InSeq(Rel(e.path), walked.visited) }

\* C12: when the walk cannot stat an entry or list a directory (root
\* included), gatherFiles returns that error and no file list: the error
\* is never dropped and the directory never taken as empty.
C12_TraversalFailureIsReturned ==
    (wpc = "walked" /\ FaultsMet # {}) =>
        /\ walked.err \notin {"nil", "panic"}
        /\ walked.files = << >>

----------------------------------------------------------------------------
(* Claims on the decoding of rules *)

HasBoth(e) == Len(e.Include) > 0 /\ Len(e.Exclude) > 0

\* C13: a rule array with an entry that has both a non-empty include and a
\* non-empty exclude list is rejected with an error and never evaluated;
\* so every rule that is evaluated comes from an entry with exactly one of
\* the two lists and is an include rule or an exclude rule over that list.
C13_BothListsRejected ==
    /\ (rpc # "start" /\ \E i \in 1..Len(body) : HasBoth(body[i])) =>
          /\ rpc = "rejected"
          /\ rules.err = "Rule cannot contain both include and exclude"
    /\ rpc = "evaluated" =>
          \A j \in 1..Len(rules.l) : \E i \in 1..Len(body) :
              \/ /\ rules.l[j] = [kind |-> "include", tests |-> body[i].Include]
                 /\ body[i].Exclude = << >>
              \/ /\ rules.l[j] = [kind |-> "exclude", tests |-> body[i].Exclude]
                 /\ body[i].Include = << >>

\* An array whose first entry is an include rule and whose second has both
\* lists was rejected.
C13_Witness ==
    /\ rpc = "rejected"
    /\ Len(body) = 2
    /\ body[1] = Include(<< PStarStar >>)
    /\ HasBoth(body[2])
    /\ rules.err # "nil"

----------------------------------------------------------------------------
(* Claims on Check as a whole *)

\* What Check returns, computed from its inputs alone and one file after the
\* other: the tree, the body of the configuration file, and what reading and
\* scanning each file gives.
FailuresIn(cfg, tree, cont) ==
    LET fl == gatherFiles(cfg, tree).files
    IN  SelectSeq([i \in 1..Len(fl) |-> examine(cfg, fl[i], cont[fl[i]])], NonNil)

Outcome(tree, s, cont) ==
    LET r == loadConfigs(tree, s)
        bad == { c \in 1..Len(r.cfgs) : FailuresIn(r.cfgs[c], tree, cont) # << >> }
    IN  IF r.err # "nil" THEN LoadError(r.err)
        ELSE IF bad = {} THEN ReturnNil
        ELSE AggregateError(FailuresIn(r.cfgs[First(bad)], tree, cont))

\* C14: what Check returns is a function of the tree, the configuration and
\* the oracle's answers alone: whatever the order in which the units run and
\* finish, it returns Outcome(fs, src, content), so two runs over the same
\* inputs both succeed or both fail with the same count and the same lines.
C14_OutcomeIndependentOfSchedule ==
    pc = "done" => ret = Outcome(fs, src, content)

\* Check returned a failure of two lines or more after a run in which the
\* unit of the last file was the first to write its slot.
C14_Witness ==
    /\ pc = "done"
    /\ ret.msg = "errors"
    /\ ret.count >= 2
    /\ firstWrote = NFiles
    /\ ret = Outcome(fs, src, content)

----------------------------------------------------------------------------
(* Claims on patterns *)

NoSeparator(s) == \A j \in 1..Len(s) : s[j] # "/"

\* What each pattern of PatternPool accepts, written out by hand.
Accepts(pattern, s) ==
    CASE pattern = PStar -> NoSeparator(s)
      [] pattern = PStarStar -> TRUE
      [] pattern = PQuestion -> Len(s) = 1 /\ s[1] # "/"
      [] pattern = NameA -> s = << "a" >>
      [] pattern = PAStar ->
            Len(s) >= 1 /\ s[1] = "a" /\ NoSeparator(Tail(s))
      [] pattern = PAQuestion -> Len(s) = 2 /\ s[1] = "a" /\ s[2] # "/"
      [] pattern = PASlashStar ->
            /\ Len(s) >= 2 /\ s[1] = "a" /\ s[2] = "/"
            /\ NoSeparator(SubSeq(s, 3, Len(s)))
      [] pattern = PASlashStarStar -> Len(s) >= 2 /\ s[1] = "a" /\ s[2] = "/"
      [] pattern = PStarStarA -> Len(s) >= 1 /\ s[Len(s)] = "a"

\* C15: a pattern is matched against the whole path: a literal matches
\* itself, '?' one character that is not '/', '*' a run of characters with
\* no '/' in it, '**' any run; so '*' matches exactly the paths without '/'
\* and '**' matches every path.
C15_WildcardsAndSeparators ==
    mpc = "tested" => (mres <=> Accepts(mpattern, mpath))

\* 'a/**' was tested on a path with two separators and matched, where
\* 'a/*' does not match it.
C15_Witness ==
    /\ mpc = "tested"
    /\ mpattern = PASlashStarStar
    /\ mpath = << "a", "/", "/" >>
    /\ mres
    /\ ~Accepts(PASlashStar, mpath)

----------------------------------------------------------------------------
(* Claims on the units of one runConfig call *)

\* A step of some goroutine of a runConfig call.
StepOfUnit ==
    \E c \in 1..Len(unit) : \E i \in 1..Len(unit[c]) :
        unit[c][i] \in {"run", "wrote"} /\ unit'[c][i] # unit[c][i]

\* The slots of errs a step changes.
SlotsChanged ==
    { q \in UNION { { <<c, j>> : j \in 1..Len(errs[c]) } : c \in 1..Len(errs) } :
        errs'[q[1]][q[2]] # errs[q[1]][q[2]] }

OneWriterPerSlot ==
    /\ \A c \in 1..Len(unit) : \A i \in 1..Len(unit[c]) :
          writers[c][i] = IF unit[c][i] \in {"wrote", "done"} THEN << i >> ELSE << >>
    /\ pc = "collect" => \A i \in 1..Len(files[ci]) : writers[ci][i] = << i >>

UnitsWriteTheirSlotOnly ==
    StepOfUnit =>
        /\ cfgs' = cfgs /\ fs' = fs /\ files' = files /\ content' = content
        /\ \A q \in SlotsChanged :
              unit[q[1]][q[2]] = "run" /\ unit'[q[1]][q[2]] = "wrote"

\* C16: in one runConfig call slot i of errs is written once, by unit i and
\* by no other unit, so no two units write one slot; and no step of a unit
\* changes the Config (its licenses and rules), the tree under root or the
\* file list.
C16_EachSlotHasOneWriter ==
    []OneWriterPerSlot /\ [][UnitsWriteTheirSlotOnly]_vars

\* Units 1 and 3 have written their slots while unit 2 has not.
C16_Witness ==
    /\ pc = "spawn"
    /\ Len(files[ci]) = NFiles
    /\ writers[ci][1] = << 1 >>
    /\ writers[ci][2] = << >>
    /\ writers[ci][NFiles] = << NFiles >>
    /\ errs[ci][1] # Nil
    /\ errs[ci][NFiles] # Nil

----------------------------------------------------------------------------
(* Claims on the WaitGroup *)

Live(c) == { i \in 1..Len(unit[c]) : unit[c][i] \in {"run", "wrote"} }

Ended(c) == { i \in 1..Len(unit[c]) : unit[c][i] = "done" }

CounterTracksUnits ==
    /\ \A c \in 1..Len(unit) :
          /\ wg[c] >= 0
          /\ wg[c] = Cardinality(Live(c))
          /\ wg[c] = 0 <=> Live(c) = {}
    /\ pc = "spawn" =>
          /\ \A i \in 1..Len(unit[ci]) : unit[ci][i] = "idle" <=> i >= next
          /\ wg[ci] + Cardinality(Ended(ci)) = next - 1
    /\ pc \in {"collect", "report"} /\ walks # << >> =>
          Cardinality(Ended(ci)) = Len(files[ci])

\* C17: the counter of the WaitGroup is raised once per file before its
\* goroutine starts and lowered once by each goroutine as it ends, so it is
\* never negative and is the number of goroutines started and not ended;
\* it is zero after the loop exactly when all len(files) have ended, and
\* under fair scheduling a runConfig that entered its loop always returns.
C17_RunConfigTerminates ==
    []CounterTracksUnits /\ ((pc = "spawn") ~> (pc = "report"))

\* runConfig returned after NFiles goroutines ended, every file passing.
C17_Witness ==
    /\ pc = "report"
    /\ Len(files[ci]) = NFiles
    /\ Ended(ci) = 1..NFiles
    /\ wg[ci] = 0
    /\ out = << >>

----------------------------------------------------------------------------
(* Claims on a configuration file without a Config *)

\* The configuration file is there and holds the empty array.
EmptyList ==
    /\ Entry(<< ConfigFileName >>, FALSE) \in fs
    /\ src = [file |-> "array", cfgs |-> << >>]

\* C18: when the configuration file decodes to an empty list of Configs,
\* Check calls gatherFiles for nothing, starts no goroutine and returns nil.
C18_EmptyListSucceeds ==
    (EmptyList /\ pc # "start") =>
        /\ pc \in {"loop", "done"}
        /\ cfgs = << >>
        /\ walks = << >>
        /\ unit = << >>
        /\ files = << >>
        /\ pc = "done" => ret = ReturnNil

\* Check returned nil on a root whose configuration file holds the empty
\* array, though a file under it has no license.
C18_Witness ==
    /\ EmptyList
    /\ pc = "done"
    /\ ret = ReturnNil
    /\ \E f \in CheckFiles : content[f] = [readErr |-> FALSE, matches |-> << >>]

----------------------------------------------------------------------------
(* Claims on rule entries with neither list *)

NotEmptyEntry(e) == e.Include # << >> \/ e.Exclude # << >>

\* The rule array without its entries that have neither list.
Stripped(p) == SelectSeq(p, NotEmptyEntry)

\* The rule an entry with exactly one list stands for.
RuleOf(e) ==
    IF e.Include # << >> THEN [kind |-> "include", tests |-> e.Include]
    ELSE [kind |-> "exclude", tests |-> e.Exclude]

\* C19: an entry with neither an include nor an exclude list is accepted
\* and adds no rule: the decoded rules are those of the other entries, in
\* order, and a path evaluates as it does under the array with such entries
\* taken out.
C19_EmptyEntryAddsNoRule ==
    (rpc # "start" /\ \A i \in 1..Len(body) : ~HasBoth(body[i])) =>
        /\ rpc \in {"decoded", "evaluated"}
        /\ rules.err = "nil"
        /\ rules.l = [j \in 1..Len(Stripped(body)) |-> RuleOf(Stripped(body)[j])]
        /\ rpc = "evaluated" =>
              res = shouldExamine([Paths |-> UnmarshalJSON(Stripped(body)).l,
                                   Licenses |-> << >>], rpath)

\* An array of an entry with neither list and then Exclude(**) was decoded
\* to one rule, and a path was evaluated under it and excluded.
C19_Witness ==
    /\ rpc = "evaluated"
    /\ body = << [Include |-> << >>, Exclude |-> << >>], Exclude(<< PStarStar >>) >>
    /\ Len(rules.l) = 1
    /\ ~res

====
